---- MODULE Spec2Model ----
(***************************************************************************)
(* The completion request clients of the Apna Ghar chat applications:      *)
(* ask_openrouter (main.py), a retry loop with exponential backoff around  *)
(* one HTTPS POST, and ask_api (main2.py), a single POST without retry.    *)
(*                                                                         *)
(* One behaviour is one call of one of the two functions.  The arguments   *)
(* are drawn from bounded sets, the server's answers and the network's     *)
(* failures are chosen nondeterministically per attempt, and everything    *)
(* the call does that a caller can observe (requests, st.info/st.error     *)
(* notifications, time.sleep waits) is appended to trace in program order. *)
(***************************************************************************)
EXTENDS Integers, Sequences, FiniteSets, TLC

VARIABLES
    fn,        \* the function called: "ask_openrouter" or "ask_api"
    pc,        \* where the call is: "idle", "entry", "loop", "returned", "raised"
    api_key,   \* the key the call reads
    messages,  \* ask_openrouter's conversation argument
    query,     \* ask_api's argument
    payload,   \* ask_openrouter's payload dict, once built
    retry,     \* ask_openrouter's attempt counter
    answers,   \* what the network did on each request of the call, in order
    trace,     \* the requests, notifications and sleeps of the call, in order
    result,    \* the value returned, once pc = "returned"
    exc,       \* the exception that left the function, once pc = "raised"
    session,     \* main.py: st.session_state.messages
    user_prompt, \* main.py: the text area's value at the last form submit
    button,      \* main.py: the form button of the last submit, "Send" or "Clear"
    before,      \* main.py: st.session_state.messages when the last handler
                 \* called st.rerun(), before the rerun's truncation
    typed,       \* main.py: prompts sent since the conversation was last cleared
    failures,    \* main.py: calls of the session that ended in an error result
    chat,            \* main2.py: st.session_state.messages
    text_to_speak,   \* main2.py: st.session_state.text_to_speak
    last_processed_speech_id, \* main2.py: the session's field, 0 for None
    speech_data,     \* main2.py: the component's value
    manual_query,    \* main2.py: the chat input's value in the current run
    script,          \* main2.py: where the current script run is
    events,          \* main2.py: browser events of the session so far
    processed,       \* main2.py: the ids lines 247-252 ran for, in order
    recognition,       \* component: "idle", "starting", "listening" or "ending"
    speaking,          \* component: let speaking
    currentSpeechText, \* component: let currentSpeechText
    listenDisabled,    \* component: listenButton.disabled
    speakDisabled,     \* component: speakButton.disabled
    utterances,        \* component: the queue of window.speechSynthesis
    cancelled,         \* component: utterances cancel() removed whose event is due
    rendered,          \* component: text_to_speak of the last render event
    finished,          \* component: the utterance that was last spoken to its end
    event              \* component: the last browser event handled

callVars == <<fn, pc, api_key, messages, query, payload, retry, answers, trace, result, exc>>

appVars == <<session, user_prompt, button, before, typed, failures>>

speechVars == <<chat, text_to_speak, last_processed_speech_id, speech_data,
                manual_query, script, events, processed>>

voiceVars == <<recognition, speaking, currentSpeechText, listenDisabled,
               speakDisabled, utterances, cancelled, rendered, finished, event>>

main2Vars == <<speechVars, voiceVars>>

\* what a step of a call leaves alone
others == <<appVars, main2Vars>>

vars == <<callVars, appVars, main2Vars>>

----------------------------------------------------------------------------
(* Bounds of the model *)

\* longest conversation passed to a call
MaxMsgs == 2
\* how far the longest error body exceeds the 500-character cut
ExtraLen == 2
\* prompts sent to the main.py application between two Clears
MaxSends == 17
\* calls of one main.py conversation that end in an error result
MaxFailures == 1
\* browser events (speech results, recognition errors, typed messages) of a
\* main2.py session
MaxEvents == 3
\* utterances queued or cancelled in the browser at one time
MaxQueue == 2

(* Program constants *)

\* main.py:118  retry, max_retries, base = 0, 4, 1.0
max_retries == 4
base == 1
\* main.py:134  resp.text[:500]
BodyCap == 500
\* main.py:91  if len(st.session_state.messages) > 30:
MaxHistory == 30
\* main.py:92  st.session_state.messages[-29:]
KeepLatest == 29

----------------------------------------------------------------------------
(* Python values.  A value is a record [t, s]: t is its Python type, s its *)
(* text when it is a str.                                                   *)

PyStr(s) == [t |-> "str", s |-> s]
PyNone == [t |-> "NoneType", s |-> ""]
\* a value json.dumps cannot serialise (a set, bytes, ...)
PyObj == [t |-> "set", s |-> ""]

\* bool(v): None and the empty string are falsy
Truthy(v) == ~(v.t = "NoneType") /\ ~(v.t = "str" /\ v.s = "")

Min(a, b) == IF a <= b THEN a ELSE b

RECURSIVE Pow2(_)
Pow2(n) == IF n = 0 THEN 1 ELSE 2 * Pow2(n - 1)

\* text[:n]
Prefix(text, n) == SubSeq(text, 1, Min(Len(text), n))

\* f"{delay:.0f}" of a non-negative whole delay: its decimal digits
RECURSIVE Digits(_)
Digits(n) == IF n < 10 THEN <<n>> ELSE Digits(n \div 10) \o <<n % 10>>

----------------------------------------------------------------------------
(* Arguments *)

ApiKeys == {PyNone, PyStr(""), PyStr("sk-or-v1")}

\* dicts of a conversation: well-formed ones, one with an extra key, one
\* whose content cannot be serialised, and two that lack a key
GoodMessages ==
    { [role |-> PyStr("system"), content |-> PyStr("You are helpful")],
      [role |-> PyStr("user"), content |-> PyStr("Hello"), name |-> PyStr("Asha")] }

OddMessages ==
    { [role |-> PyStr("user"), content |-> PyObj],
      [role |-> PyStr("user")],
      [content |-> PyStr("Hello")] }

Messages == GoodMessages \cup OddMessages

Conversations == UNION { [1..n -> Messages] : n \in 0..MaxMsgs }

----------------------------------------------------------------------------
(* What the network can answer *)

\* resp.text of an error response: n characters
Text(n) == [i \in 1..n |-> i % 3]

\* bodies that reach the 500-character cut and go beyond it
LongTexts == {Text(BodyCap), Text(BodyCap + ExtraLen)}

\* The JSON document of a 200 response, as far as
\* j["choices"][0]["message"]["content"] reads it: whether the body decodes,
\* whether the object has "choices", and for each choice whether it has
\* "message", whether that has "content", and the content.
Choice(hasMessage, hasContent, c) ==
    [hasMessage |-> hasMessage, hasContent |-> hasContent, content |-> c]

Body(decodable, hasChoices, choices) ==
    [decodable |-> decodable, hasChoices |-> hasChoices, choices |-> choices]

WellFormedBodies ==
    { Body(TRUE, TRUE, <<Choice(TRUE, TRUE, PyStr("Hi there!"))>>),
      Body(TRUE, TRUE, <<Choice(TRUE, TRUE, PyStr("Namaste")),
                         Choice(TRUE, TRUE, PyStr("Hi there!"))>>) }

NotJson == Body(FALSE, FALSE, <<>>)

BrokenBodies ==
    { NotJson,
      Body(TRUE, FALSE, <<>>),
      Body(TRUE, TRUE, <<>>),
      Body(TRUE, TRUE, <<Choice(FALSE, FALSE, PyNone)>>),
      Body(TRUE, TRUE, <<Choice(TRUE, FALSE, PyNone)>>) }

\* "content": null decodes and is found, but is not a str
NullContentBody == Body(TRUE, TRUE, <<Choice(TRUE, TRUE, PyNone)>>)

Bodies == WellFormedBodies \cup BrokenBodies \cup {NullContentBody}

WellFormed(b) ==
    /\ b.decodable /\ b.hasChoices /\ Len(b.choices) > 0
    /\ b.choices[1].hasMessage /\ b.choices[1].hasContent
    /\ b.choices[1].content.t = "str"

TransientStatuses == {500, 503}

Response(status, text, body) == [status |-> status, text |-> text, body |-> body]

\* a 200 carries a JSON body, an error status carries diagnostic text
Responses ==
    { Response(200, <<>>, b) : b \in Bodies }
    \cup { Response(s, <<>>, NotJson) : s \in TransientStatuses }
    \cup { Response(204, Text(0), NotJson), Response(404, Text(3), NotJson) }
    \cup { Response(429, t, NotJson) : t \in LongTexts }

\* requests.exceptions raised by requests.post before a response arrives
NetworkFailures == {"Timeout", "ConnectionError"}
OtherFailures == {"TooManyRedirects"}

----------------------------------------------------------------------------
(* Everything a caller can observe of a call, in program order *)

\* the data of an event that carries none
NoData == [model |-> "", messages |-> <<>>, temperature |-> "", max_tokens |-> ""]

Event(ev, fmt, status, delay, text, data) ==
    [ev |-> ev, fmt |-> fmt, status |-> status, delay |-> delay,
     text |-> text, data |-> data]

\* requests.post(url, headers=headers, data=json.dumps(payload), timeout=30)
PostEvent(data) == Event("post", "", 0, 0, <<>>, data)
\* st.info(...) / st.error(...)
NoteEvent(ev, fmt, status, text) == Event(ev, fmt, status, 0, text, NoData)
\* time.sleep(delay)
SleepEvent(delay) == Event("sleep", "", 0, delay, <<>>, NoData)

\* A returned Python value: its type, the f-string that built it and the
\* values substituted into it.
Returned(t, fmt, arg, status, tail) ==
    [t |-> t, fmt |-> fmt, arg |-> arg, status |-> status, tail |-> tail]

NoResult == Returned("", "", "", 0, <<>>)

----------------------------------------------------------------------------
(* ask_openrouter, main.py *)

\* a test that takes only None for a missing key
KeyMissing_OnlyNone(key) == key.t = "NoneType"

\* if not api_key:
KeyMissing(key) == ~Truthy(key)

MissingKeyResult ==
    Returned("str",
             "Error: Missing OpenRouter API key. Add it via the API Settings panel.",
             "", 0, <<>>)

\* m["role"] and m["content"] both exist
HasKeys(m) == {"role", "content"} \subseteq DOMAIN m

\* a comprehension that leaves out the first (system) message
BuildMessages_SkipFirst(msgs) ==
    [i \in 1..(Len(msgs) - 1) |->
        [role |-> msgs[i + 1].role, content |-> msgs[i + 1].content]]

\* [{"role": m["role"], "content": m["content"]} for m in messages]
BuildMessages(msgs) ==
    [i \in 1..Len(msgs) |-> [role |-> msgs[i].role, content |-> msgs[i].content]]

BuildPayload(msgs) ==
    [model |-> "openai/gpt-3.5-turbo", messages |-> BuildMessages(msgs),
     temperature |-> "0.7", max_tokens |-> "600"]

NoPayload == [model |-> "", messages |-> <<>>, temperature |-> "", max_tokens |-> ""]

\* json.dumps of one value: a str becomes a JSON string, None becomes null,
\* anything else raises TypeError
Serialisable(v) == v.t \in {"str", "NoneType"}

JsonValue(v) == IF v.t = "str" THEN <<"string", v.s>> ELSE <<"null", "">>

\* json.dumps of one payload dict: its keys in insertion order
JsonObject(d) == << <<"role", JsonValue(d.role)>>, <<"content", JsonValue(d.content)>> >>

PayloadSerialisable(p) ==
    \A i \in 1..Len(p.messages) :
        Serialisable(p.messages[i].role) /\ Serialisable(p.messages[i].content)

\* json.dumps(payload)
json_dumps(p) ==
    [model |-> p.model,
     messages |-> [i \in 1..Len(p.messages) |-> JsonObject(p.messages[i])],
     temperature |-> p.temperature, max_tokens |-> p.max_tokens]

\* a loop that stops one attempt early
LoopContinues_Strict(r) == r < max_retries

\* while retry <= max_retries:
LoopContinues(r) == r <= max_retries

\* a test that also retries client errors
IsTransient_From400(status) == 400 <= status /\ status < 600

\* elif 500 <= resp.status_code < 600:
IsTransient(status) == 500 <= status /\ status < 600

\* a delay that grows linearly
Delay_Linear(r) == base * (r + 1)

\* delay = base * (2 ** retry)
Delay(r) == base * Pow2(r)

\* resp.json() followed by j["choices"][0]["message"]["content"]: the
\* exception raised on the way ("" when none), its str(), and the value found
Lookup(exception, message, value) ==
    [exception |-> exception, message |-> message, value |-> value]

Extract(b) ==
    IF ~b.decodable
        THEN Lookup("JSONDecodeError", "Expecting value: line 1 column 1 (char 0)", PyNone)
    ELSE IF ~b.hasChoices THEN Lookup("KeyError", "'choices'", PyNone)
    ELSE IF Len(b.choices) = 0 THEN Lookup("IndexError", "list index out of range", PyNone)
    ELSE IF ~b.choices[1].hasMessage THEN Lookup("KeyError", "'message'", PyNone)
    ELSE IF ~b.choices[1].hasContent THEN Lookup("KeyError", "'content'", PyNone)
    ELSE Lookup("", "", b.choices[1].content)

\* return j["choices"][0]["message"]["content"]
ContentResult(c) == Returned(c.t, "{content}", c.s, 0, <<>>)

\* return f"API Error ({resp.status_code}): {resp.text[:500]}"
ApiErrorResult(status, text) ==
    Returned("str", "API Error ({status}): {text}", "", status, Prefix(text, BodyCap))

\* return f"Unexpected error: {e}"
UnexpectedResult(message) == Returned("str", "Unexpected error: {e}", message, 0, <<>>)

ExhaustedResult ==
    Returned("str", "Error: Max retries exceeded. Please try again in a moment.",
             "", 0, <<>>)

\* st.info(f"Server is busy (HTTP {resp.status_code}). Retrying in {delay:.0f}s...")
ServerBusyNote(status, delay) ==
    NoteEvent("info", "Server is busy (HTTP {status}). Retrying in {delay}s...",
              status, Digits(delay))

\* st.info(f"Network issue. Retrying in {delay:.0f}s...")
NetworkNote(delay) ==
    NoteEvent("info", "Network issue. Retrying in {delay}s...", 0, Digits(delay))

\* a retry that sleeps without telling the caller
Backoff_Silent(note, delay) == <<SleepEvent(delay)>>

\* info, sleep, retry += 1: what both retry branches append to the trace
Backoff(note, delay) == <<note, SleepEvent(delay)>>

\* what the network did on one request
Answer(kind, status, text, body) ==
    [kind |-> kind, status |-> status, text |-> text, body |-> body]

\* lines 86-88: the seeded system prompt
SystemMessage ==
    [role |-> PyStr("system"),
     content |-> PyStr(<<"You are Apna Ghar Chatbot, a concise, helpful assistant for home-related queries in India. Keep answers clear, practical, and polite.">>)]

\* the component's value before the browser has sent one (None)
NoSpeechData == [type |-> "", text |-> PyStr(""), id |-> 0]

\* new SpeechSynthesisUtterance(text); started once its onstart has run;
\* auto when onRender, not a click, asked for it
Utterance(text, auto) == [text |-> text, started |-> FALSE, auto |-> auto]

NoUtterance == Utterance("", FALSE)

----------------------------------------------------------------------------
Init ==
    /\ fn = ""
    /\ pc = "idle"
    /\ api_key = PyNone
    /\ messages = <<>>
    /\ query = PyStr("")
    /\ payload = NoPayload
    /\ retry = 0
    /\ answers = <<>>
    /\ trace = <<>>
    /\ result = NoResult
    /\ exc = ""
    /\ session = <<SystemMessage>>
    /\ user_prompt = <<>>
    /\ button = ""
    /\ before = <<SystemMessage>>
    /\ typed = 0
    /\ failures = 0
    /\ chat = <<>>
    /\ text_to_speak = ContentResult(PyStr(""))
    /\ last_processed_speech_id = 0
    /\ speech_data = NoSpeechData
    /\ manual_query = PyNone
    /\ script = "idle"
    /\ events = 0
    /\ processed = <<>>
    /\ recognition = "idle"
    /\ speaking = FALSE
    /\ currentSpeechText = ""
    /\ listenDisabled = FALSE
    /\ speakDisabled = FALSE
    /\ utterances = <<>>
    /\ cancelled = 0
    /\ rendered = ""
    /\ finished = NoUtterance
    /\ event = ""

\* reply = ask_openrouter(api_key, st.session_state.messages)
ask_openrouter(key, msgs) ==
    /\ pc = "idle"
    /\ fn' = "ask_openrouter"
    /\ pc' = "entry"
    /\ api_key' = key
    /\ messages' = msgs
    /\ UNCHANGED <<others, query, payload, retry, answers, trace, result, exc>>

Return(value) ==
    /\ pc' = "returned"
    /\ result' = value

\* lines 98-99: no key, no request
ReturnMissingKey ==
    /\ fn = "ask_openrouter" /\ pc = "entry"
    /\ KeyMissing(api_key)
    /\ Return(MissingKeyResult)
    /\ UNCHANGED <<others, fn, api_key, messages, query, payload, retry, answers, trace, exc>>

\* a counter kept outside the function, set to 0 once and never again
Prepare_KeepsRetry ==
    /\ fn = "ask_openrouter" /\ pc = "entry"
    /\ ~KeyMissing(api_key)
    /\ \A i \in 1..Len(messages) : HasKeys(messages[i])
    /\ payload' = BuildPayload(messages)
    /\ pc' = "loop"
    /\ UNCHANGED <<others, fn, api_key, messages, query, retry, answers, trace, result, exc>>

\* lines 101-118: the payload is built before the try statement is entered
Prepare ==
    /\ fn = "ask_openrouter" /\ pc = "entry"
    /\ ~KeyMissing(api_key)
    /\ \A i \in 1..Len(messages) : HasKeys(messages[i])
    /\ payload' = BuildPayload(messages)
    /\ retry' = 0
    /\ pc' = "loop"
    /\ UNCHANGED <<others, fn, api_key, messages, query, answers, trace, result, exc>>

\* line 112 outside the try: m["role"] or m["content"] raises KeyError
PrepareRaises ==
    /\ fn = "ask_openrouter" /\ pc = "entry"
    /\ ~KeyMissing(api_key)
    /\ \E i \in 1..Len(messages) : ~HasKeys(messages[i])
    /\ pc' = "raised"
    /\ exc' = "KeyError"
    /\ UNCHANGED <<others, fn, api_key, messages, query, payload, retry, answers, trace, result>>

InLoop == fn = "ask_openrouter" /\ pc = "loop" /\ LoopContinues(retry)

\* line 122: json.dumps(payload) raises TypeError inside the try, before any
\* request; except Exception turns it into a result
DumpsFails ==
    /\ InLoop
    /\ ~PayloadSerialisable(payload)
    /\ Return(UnexpectedResult("Object of type set is not JSON serializable"))
    /\ UNCHANGED <<others, fn, api_key, messages, query, payload, retry, answers, trace, exc>>

Sendable == InLoop /\ PayloadSerialisable(payload)

\* lines 123-125 with a body the lookup goes through
PostSuccess(r) ==
    /\ Sendable
    /\ r.status = 200
    /\ Extract(r.body).exception = ""
    /\ answers' = Append(answers, Answer("response", r.status, r.text, r.body))
    /\ trace' = Append(trace, PostEvent(json_dumps(payload)))
    /\ Return(ContentResult(Extract(r.body).value))
    /\ UNCHANGED <<others, fn, api_key, messages, query, payload, retry, exc>>

\* a handler that takes a broken 200 body for a transient failure
PostUndecodable_Retried(r) ==
    /\ Sendable
    /\ r.status = 200
    /\ Extract(r.body).exception # ""
    /\ answers' = Append(answers, Answer("response", r.status, r.text, r.body))
    /\ trace' = Append(trace, PostEvent(json_dumps(payload)))
                \o Backoff(NetworkNote(Delay(retry)), Delay(retry))
    /\ retry' = retry + 1
    /\ UNCHANGED <<others, fn, pc, api_key, messages, query, payload, result, exc>>

\* lines 123-125 raising (JSONDecodeError, KeyError, IndexError), caught at 140
PostUndecodable(r) ==
    /\ Sendable
    /\ r.status = 200
    /\ Extract(r.body).exception # ""
    /\ answers' = Append(answers, Answer("response", r.status, r.text, r.body))
    /\ trace' = Append(trace, PostEvent(json_dumps(payload)))
    /\ Return(UnexpectedResult(Extract(r.body).message))
    /\ UNCHANGED <<others, fn, api_key, messages, query, payload, retry, exc>>

\* lines 126-131
PostServerBusy(r) ==
    /\ Sendable
    /\ r.status # 200
    /\ IsTransient(r.status)
    /\ answers' = Append(answers, Answer("response", r.status, r.text, r.body))
    /\ trace' = Append(trace, PostEvent(json_dumps(payload)))
                \o Backoff(ServerBusyNote(r.status, Delay(retry)), Delay(retry))
    /\ retry' = retry + 1
    /\ UNCHANGED <<others, fn, pc, api_key, messages, query, payload, result, exc>>

\* lines 132-134
PostApiError(r) ==
    /\ Sendable
    /\ r.status # 200
    /\ ~IsTransient(r.status)
    /\ answers' = Append(answers, Answer("response", r.status, r.text, r.body))
    /\ trace' = Append(trace, PostEvent(json_dumps(payload)))
    /\ Return(ApiErrorResult(r.status, r.text))
    /\ UNCHANGED <<others, fn, api_key, messages, query, payload, retry, exc>>

\* a network branch that always waits the base delay
PostNetworkIssue_FlatDelay(failure) ==
    /\ Sendable
    /\ answers' = Append(answers, Answer(failure, 0, <<>>, NotJson))
    /\ trace' = Append(trace, PostEvent(json_dumps(payload)))
                \o Backoff(NetworkNote(base), base)
    /\ retry' = retry + 1
    /\ UNCHANGED <<others, fn, pc, api_key, messages, query, payload, result, exc>>

\* lines 135-139
PostNetworkIssue(failure) ==
    /\ Sendable
    /\ answers' = Append(answers, Answer(failure, 0, <<>>, NotJson))
    /\ trace' = Append(trace, PostEvent(json_dumps(payload)))
                \o Backoff(NetworkNote(Delay(retry)), Delay(retry))
    /\ retry' = retry + 1
    /\ UNCHANGED <<others, fn, pc, api_key, messages, query, payload, result, exc>>

\* lines 140-141, for an exception of requests.post that is neither a Timeout
\* nor a ConnectionError
PostUnexpected(failure) ==
    /\ Sendable
    /\ answers' = Append(answers, Answer(failure, 0, <<>>, NotJson))
    /\ trace' = Append(trace, PostEvent(json_dumps(payload)))
    /\ Return(UnexpectedResult(failure))
    /\ UNCHANGED <<others, fn, api_key, messages, query, payload, retry, exc>>

\* a function that raises when the attempts are used up
ReturnExhausted_Raises ==
    /\ fn = "ask_openrouter" /\ pc = "loop"
    /\ ~LoopContinues(retry)
    /\ pc' = "raised"
    /\ exc' = "RuntimeError"
    /\ UNCHANGED <<others, fn, api_key, messages, query, payload, retry, answers, trace, result>>

\* line 142: the loop condition failed
ReturnExhausted ==
    /\ fn = "ask_openrouter" /\ pc = "loop"
    /\ ~LoopContinues(retry)
    /\ Return(ExhaustedResult)
    /\ UNCHANGED <<others, fn, api_key, messages, query, payload, retry, answers, trace, exc>>

----------------------------------------------------------------------------
(* ask_api, main2.py *)

Queries == {PyStr("Hello"), PyStr("What is the rent?")}

\* st.error(...) before each error return
MissingKeyNote ==
    NoteEvent("error",
              "OpenRouter API key not found. Please set it in Streamlit secrets.",
              0, <<>>)

AskApiMissingKeyResult ==
    Returned("str",
             "Please set your OpenRouter API key in Streamlit secrets to enable AI responses.",
             "", 0, <<>>)

\* data = {"model": ..., "messages": [{"role": "user", "content": query}]}
AskApiData(q) ==
    [model |-> "openai/gpt-3.5-turbo",
     messages |-> <<[role |-> PyStr("user"), content |-> q]>>,
     temperature |-> "", max_tokens |-> ""]

\* response.raise_for_status(): HTTPError for 4xx and 5xx
RaisesForStatus(status) == 400 <= status /\ status < 600

RequestErrorNote == NoteEvent("error", "API Request Error: {e}", 0, <<>>)

RequestErrorResult ==
    Returned("str",
             "Sorry, I'm having trouble connecting to the AI. Please try again later.",
             "", 0, <<>>)

FormatErrorNote ==
    NoteEvent("error",
              "Unexpected API response format. Check the model name or API documentation.",
              0, <<>>)

FormatErrorResult ==
    Returned("str", "Sorry, I received an unexpected response from the AI.", "", 0, <<>>)

\* ai_response = ask_api(user_query)
ask_api(key, q) ==
    /\ pc = "idle"
    /\ fn' = "ask_api"
    /\ pc' = "entry"
    /\ api_key' = key
    /\ query' = q
    /\ UNCHANGED <<others, messages, payload, retry, answers, trace, result, exc>>

\* lines 161-163
AskApiMissingKey ==
    /\ fn = "ask_api" /\ pc = "entry"
    /\ KeyMissing(api_key)
    /\ trace' = Append(trace, MissingKeyNote)
    /\ Return(AskApiMissingKeyResult)
    /\ UNCHANGED <<others, fn, api_key, messages, query, payload, retry, answers, exc>>

AskApiSendable == fn = "ask_api" /\ pc = "entry" /\ ~KeyMissing(api_key)

\* lines 176-179, nothing raised
AskApiSuccess(r) ==
    /\ AskApiSendable
    /\ ~RaisesForStatus(r.status)
    /\ Extract(r.body).exception = ""
    /\ answers' = Append(answers, Answer("response", r.status, r.text, r.body))
    /\ trace' = Append(trace, PostEvent(json_dumps(AskApiData(query))))
    /\ Return(ContentResult(Extract(r.body).value))
    /\ UNCHANGED <<others, fn, api_key, messages, query, payload, retry, exc>>

\* lines 180-182: HTTPError of raise_for_status
AskApiHttpError(r) ==
    /\ AskApiSendable
    /\ RaisesForStatus(r.status)
    /\ answers' = Append(answers, Answer("response", r.status, r.text, r.body))
    /\ trace' = Append(trace, PostEvent(json_dumps(AskApiData(query))))
                \o <<RequestErrorNote>>
    /\ Return(RequestErrorResult)
    /\ UNCHANGED <<others, fn, api_key, messages, query, payload, retry, exc>>

\* lines 180-182: any RequestException of requests.post
AskApiNetworkError(failure) ==
    /\ AskApiSendable
    /\ answers' = Append(answers, Answer(failure, 0, <<>>, NotJson))
    /\ trace' = Append(trace, PostEvent(json_dumps(AskApiData(query))))
                \o <<RequestErrorNote>>
    /\ Return(RequestErrorResult)
    /\ UNCHANGED <<others, fn, api_key, messages, query, payload, retry, exc>>

\* lines 183-185
AskApiKeyError(r) ==
    /\ AskApiSendable
    /\ ~RaisesForStatus(r.status)
    /\ Extract(r.body).exception = "KeyError"
    /\ answers' = Append(answers, Answer("response", r.status, r.text, r.body))
    /\ trace' = Append(trace, PostEvent(json_dumps(AskApiData(query))))
                \o <<FormatErrorNote>>
    /\ Return(FormatErrorResult)
    /\ UNCHANGED <<others, fn, api_key, messages, query, payload, retry, exc>>

\* line 178: response.json() raises JSONDecodeError.  In requests >= 2.27 it is
\* a RequestException and lines 180-182 catch it; in older versions it is a
\* plain ValueError that no except clause names.  The repository pins no
\* version, so both happen.
AskApiUndecodable(r, caught) ==
    /\ AskApiSendable
    /\ ~RaisesForStatus(r.status)
    /\ Extract(r.body).exception = "JSONDecodeError"
    /\ answers' = Append(answers, Answer("response", r.status, r.text, r.body))
    /\ IF caught
         THEN /\ trace' = Append(trace, PostEvent(json_dumps(AskApiData(query))))
                          \o <<RequestErrorNote>>
              /\ Return(RequestErrorResult)
              /\ exc' = exc
         ELSE /\ trace' = Append(trace, PostEvent(json_dumps(AskApiData(query))))
              /\ pc' = "raised"
              /\ exc' = "JSONDecodeError"
              /\ result' = result
    /\ UNCHANGED <<others, fn, api_key, messages, query, payload, retry>>

\* line 179: result["choices"][0] of an empty list raises IndexError, which no
\* except clause names
AskApiRaises(r) ==
    /\ AskApiSendable
    /\ ~RaisesForStatus(r.status)
    /\ Extract(r.body).exception = "IndexError"
    /\ answers' = Append(answers, Answer("response", r.status, r.text, r.body))
    /\ trace' = Append(trace, PostEvent(json_dumps(AskApiData(query))))
    /\ pc' = "raised"
    /\ exc' = "IndexError"
    /\ UNCHANGED <<others, fn, api_key, messages, query, payload, retry, result>>

----------------------------------------------------------------------------
Next ==
    \/ \E key \in ApiKeys, msgs \in Conversations : ask_openrouter(key, msgs)
    \/ ReturnMissingKey
    \/ Prepare
    \/ PrepareRaises
    \/ DumpsFails
    \/ \E r \in Responses : PostSuccess(r)
    \/ \E r \in Responses : PostUndecodable(r)
    \/ \E r \in Responses : PostServerBusy(r)
    \/ \E r \in Responses : PostApiError(r)
    \/ \E f \in NetworkFailures : PostNetworkIssue(f)
    \/ \E f \in OtherFailures : PostUnexpected(f)
    \/ ReturnExhausted
    \/ \E key \in ApiKeys, q \in Queries : ask_api(key, q)
    \/ AskApiMissingKey
    \/ \E r \in Responses : AskApiSuccess(r)
    \/ \E r \in Responses : AskApiHttpError(r)
    \/ \E f \in NetworkFailures \cup OtherFailures : AskApiNetworkError(f)
    \/ \E r \in Responses : AskApiKeyError(r)
    \/ \E r \in Responses, caught \in BOOLEAN : AskApiUndecodable(r, caught)
    \/ \E r \in Responses : AskApiRaises(r)

Spec == Init /\ [][Next]_vars

\* requests.post(..., timeout=30) ends every attempt, time.sleep ends every
\* wait, and nothing else suspends a call: a call that can take a step takes it
FairSpec == Spec /\ WF_vars(Next)

----------------------------------------------------------------------------
(* The main.py application: session state, the form and its two handlers.  *)
(* Texts typed or shown are sequences of tokens, " " being white space.    *)

\* a truncation that keeps the latest 30 messages and so loses the system prompt
Truncate_Latest30(msgs) ==
    IF Len(msgs) > MaxHistory
        THEN SubSeq(msgs, Len(msgs) - MaxHistory + 1, Len(msgs))
        ELSE msgs

\* lines 91-92: [messages[0]] + messages[-29:] when there are more than 30
Truncate(msgs) ==
    IF Len(msgs) > MaxHistory
        THEN <<msgs[1]>> \o SubSeq(msgs, Len(msgs) - KeepLatest + 1, Len(msgs))
        ELSE msgs

\* str.strip()
RECURSIVE LStrip(_)
LStrip(text) ==
    IF text # <<>> /\ Head(text) = " " THEN LStrip(Tail(text)) ELSE text

RECURSIVE RStrip(_)
RStrip(text) ==
    IF text # <<>> /\ text[Len(text)] = " "
        THEN RStrip(SubSeq(text, 1, Len(text) - 1))
        ELSE text

Strip(text) == RStrip(LStrip(text))

\* a test that forgets strip()
Sendable_Prompt_NoStrip(text) == text # <<>>

\* line 193: user_prompt and user_prompt.strip()
Sendable_Prompt(text) == text # <<>> /\ Strip(text) # <<>>

\* what the user may type as the n-th prompt of a conversation: nothing,
\* white space, or a numbered question with white space around it
Prompts(n) == { <<>>, <<" ", " ">>, <<" ", ToString(n), "?", " ">> }

\* line 195: {"role": "user", "content": user_prompt.strip()}
UserMessage(text) == [role |-> PyStr("user"), content |-> PyStr(Strip(text))]

\* the text of a returned value: the f-string with its values substituted
ReplyText(v) == <<v.fmt, v.arg, ToString(v.status), ToString(v.tail)>>

\* line 199: {"role": "assistant", "content": reply}
AssistantMessage(v) ==
    [role |-> PyStr("assistant"), content |-> [t |-> v.t, s |-> ReplyText(v)]]

\* the answers the network gives the application's calls
AppResponses ==
    { Response(200, <<>>, Body(TRUE, TRUE, <<Choice(TRUE, TRUE, PyStr("Hi there!"))>>)),
      Response(404, Text(3), NotJson) }

\* the form is shown: no handler and no call is running
AtForm == pc = "idle"

\* a reply that is one of ask_openrouter's error strings
IsErrorReply(v) == v.fmt # "{content}"

\* a Send that calls ask_openrouter without appending the user message first
Send_NoAppend(text, key) ==
    /\ AtForm
    /\ typed < MaxSends
    /\ Sendable_Prompt(text)
    /\ user_prompt' = text
    /\ button' = "Send"
    /\ typed' = typed + 1
    /\ session' = session
    /\ fn' = "ask_openrouter"
    /\ pc' = "entry"
    /\ api_key' = key
    /\ messages' = session'
    /\ UNCHANGED <<main2Vars, before, failures, query, payload, retry, answers, trace, result, exc>>

\* lines 193-197: Send with a prompt that is not blank appends the user message
\* and calls ask_openrouter with the session's list
Send(text, key) ==
    /\ AtForm
    /\ typed < MaxSends
    /\ Sendable_Prompt(text)
    /\ user_prompt' = text
    /\ button' = "Send"
    /\ typed' = typed + 1
    /\ session' = Append(session, UserMessage(text))
    /\ fn' = "ask_openrouter"
    /\ pc' = "entry"
    /\ api_key' = key
    /\ messages' = session'
    /\ UNCHANGED <<main2Vars, before, failures, query, payload, retry, answers, trace, result, exc>>

\* line 193 with a blank prompt: the script runs to its end, nothing is
\* appended and nothing is called
SendBlank(text) ==
    /\ AtForm
    /\ ~Sendable_Prompt(text)
    /\ user_prompt' = text
    /\ button' = "Send"
    /\ UNCHANGED <<main2Vars, session, before, typed, failures, callVars>>

\* lines 199-201 and, in the rerun, lines 91-92: the reply is appended, the
\* script runs again, truncates and shows the form, cleared (clear_on_submit)
SendReturns ==
    /\ fn = "ask_openrouter" /\ pc = "returned"
    /\ button = "Send"
    /\ before' = Append(session, AssistantMessage(result))
    /\ session' = Truncate(before')
    /\ failures' = IF IsErrorReply(result) THEN failures + 1 ELSE failures
    /\ fn' = ""
    /\ pc' = "idle"
    /\ api_key' = PyNone
    /\ messages' = <<>>
    /\ payload' = NoPayload
    /\ retry' = 0
    /\ answers' = <<>>
    /\ trace' = <<>>
    /\ result' = NoResult
    /\ user_prompt' = <<>>
    /\ button' = ""
    /\ UNCHANGED <<main2Vars, typed, query, exc>>

\* a Clear that keeps nothing, the system prompt included
Clear_DropsAll ==
    /\ AtForm
    /\ user_prompt' = <<>>
    /\ button' = ""
    /\ before' = <<>>
    /\ session' = Truncate(before')
    /\ typed' = 0
    /\ failures' = 0
    /\ UNCHANGED <<main2Vars, callVars>>

\* lines 188-190 and, in the rerun, lines 91-92
Clear ==
    /\ AtForm
    /\ user_prompt' = <<>>
    /\ button' = ""
    /\ before' = SubSeq(session, 1, 1)
    /\ session' = Truncate(before')
    /\ typed' = 0
    /\ failures' = 0
    /\ UNCHANGED <<main2Vars, callVars>>

\* a call of the application may fail while the conversation has had fewer
\* than MaxFailures failures
MayFail == failures < MaxFailures

AppNext ==
    \/ \E text \in Prompts(typed + 1), key \in ApiKeys :
           (Truthy(key) \/ MayFail) /\ Send(text, key)
    \/ \E text \in Prompts(typed + 1) : SendBlank(text)
    \/ ReturnMissingKey
    \/ Prepare
    \/ \E r \in AppResponses : PostSuccess(r)
    \/ \E r \in AppResponses : MayFail /\ PostApiError(r)
    \/ \E f \in OtherFailures : MayFail /\ PostUnexpected(f)
    \/ SendReturns
    \/ Clear

SpecApp == Init /\ [][AppNext]_vars

----------------------------------------------------------------------------
(* Calls of ask_openrouter one after another *)

\* The caller has the result and the call is over.  What the call observed
\* is forgotten; retry, payload and result keep the values the call left, so
\* that a later call that read them instead of its own would show.
CallEnds ==
    /\ fn = "ask_openrouter"
    /\ pc \in {"returned", "raised"}
    /\ fn' = ""
    /\ pc' = "idle"
    /\ answers' = <<>>
    /\ trace' = <<>>
    /\ exc' = ""
    /\ UNCHANGED <<others, api_key, messages, query, payload, retry, result>>

CallsKeys == {PyStr(""), PyStr("sk-or-v1")}

CallsConversations ==
    { <<>>,
      << [role |-> PyStr("system"), content |-> PyStr("You are helpful")],
         [role |-> PyStr("user"), content |-> PyStr("Hello")] >> }

CallsResponses ==
    { Response(200, <<>>, Body(TRUE, TRUE, <<Choice(TRUE, TRUE, PyStr("Hi there!"))>>)),
      Response(404, Text(3), NotJson),
      Response(500, <<>>, NotJson) }

CallsNext ==
    \/ \E key \in CallsKeys, msgs \in CallsConversations : ask_openrouter(key, msgs)
    \/ ReturnMissingKey
    \/ Prepare
    \/ \E r \in CallsResponses : PostSuccess(r)
    \/ \E r \in CallsResponses : PostServerBusy(r)
    \/ \E r \in CallsResponses : PostApiError(r)
    \/ PostNetworkIssue("Timeout")
    \/ ReturnExhausted
    \/ CallEnds

SpecCalls == Init /\ [][CallsNext]_vars

----------------------------------------------------------------------------
(* The main2.py script: session state, the speech branch and the typed     *)
(* branch.  The component is taken as lines 16-18 and 226-237 describe it: *)
(* its value persists in session state and changes only when the browser   *)
(* sends one, and every new value or typed message runs the script.        *)

ChatMessage(role, v) == [role |-> role, content |-> v]

\* {type: 'speech_input', text: transcript, id: Date.now()} (line 67) and
\* {type: 'error', message: event.error, id: Date.now()} (line 73)
SpeechData(type, text, id) == [type |-> type, text |-> text, id |-> id]

Transcripts == {PyStr(""), PyStr("Hello")}

TypedQueries == {PyStr("What is the rent?")}

SpeechKeys == {PyStr(""), PyStr("sk-or-v1")}

SpeechResponses ==
    { Response(200, <<>>, Body(TRUE, TRUE, <<Choice(TRUE, TRUE, PyStr("Hi there!"))>>)),
      Response(200, <<>>, Body(TRUE, TRUE, <<>>)),
      Response(404, Text(3), NotJson) }

\* recognition.onresult: the browser sets the component's value, which runs
\* the script
SpeechInput(text) ==
    /\ script = "idle"
    /\ events < MaxEvents
    /\ events' = events + 1
    /\ speech_data' = SpeechData("speech_input", text, events')
    /\ manual_query' = PyNone
    /\ script' = "speech"
    /\ UNCHANGED <<voiceVars, callVars, appVars, chat, text_to_speak,
                   last_processed_speech_id, processed>>

\* recognition.onerror
SpeechError ==
    /\ script = "idle"
    /\ events < MaxEvents
    /\ events' = events + 1
    /\ speech_data' = SpeechData("error", PyStr("no-speech"), events')
    /\ manual_query' = PyNone
    /\ script' = "speech"
    /\ UNCHANGED <<voiceVars, callVars, appVars, chat, text_to_speak,
                   last_processed_speech_id, processed>>

\* a message typed into st.chat_input runs the script; the component keeps
\* its value
ChatInput(q) ==
    /\ script = "idle"
    /\ events < MaxEvents
    /\ events' = events + 1
    /\ manual_query' = q
    /\ script' = "speech"
    /\ UNCHANGED <<voiceVars, callVars, appVars, chat, text_to_speak,
                   last_processed_speech_id, speech_data, processed>>

\* the conditions of lines 240, 243 and 245
SpeechIsNew ==
    /\ speech_data.type = "speech_input"
    /\ speech_data.id # 0
    /\ speech_data.id # last_processed_speech_id
    /\ Truthy(speech_data.text)

\* ask_api(q), called from the script, with a call's fresh locals
CallAskApi(key, q) ==
    /\ fn' = "ask_api"
    /\ pc' = "entry"
    /\ api_key' = key
    /\ query' = q
    /\ answers' = <<>>
    /\ trace' = <<>>
    /\ result' = NoResult
    /\ exc' = ""
    /\ UNCHANGED <<messages, payload, retry>>

\* the script is done with the call
CallOver ==
    /\ fn' = ""
    /\ pc' = "idle"
    /\ UNCHANGED <<api_key, messages, query, payload, retry, answers, trace, result, exc>>

\* lines 244-252
SpeechBranch(key) ==
    /\ script = "speech"
    /\ SpeechIsNew
    /\ chat' = Append(chat, ChatMessage("user", ContentResult(speech_data.text)))
    /\ processed' = Append(processed, speech_data.id)
    /\ CallAskApi(key, speech_data.text)
    /\ script' = "speech_call"
    /\ UNCHANGED <<voiceVars, appVars, text_to_speak, last_processed_speech_id,
                   speech_data, manual_query, events>>

\* lines 240-245 with a condition false: on to line 267
SpeechSkipped ==
    /\ script = "speech"
    /\ ~SpeechIsNew
    /\ script' = "manual"
    /\ UNCHANGED <<voiceVars, callVars, appVars, chat, text_to_speak,
                   last_processed_speech_id, speech_data, manual_query,
                   events, processed>>

\* lines 255-264.  st.experimental_rerun() starts the script again before
\* line 267 has read the chat input; whether the typed message survives into
\* the new run is the library's choice.
SpeechReturns(kept) ==
    /\ script = "speech_call"
    /\ fn = "ask_api" /\ pc = "returned"
    /\ chat' = Append(chat, ChatMessage("assistant", result))
    /\ text_to_speak' = result
    /\ last_processed_speech_id' = speech_data.id
    /\ manual_query' = IF kept THEN manual_query ELSE PyNone
    /\ script' = "speech"
    /\ CallOver
    /\ UNCHANGED <<voiceVars, appVars, speech_data, events, processed>>

\* line 252 raises: the run ends there with the exception shown
SpeechRaises ==
    /\ script = "speech_call"
    /\ fn = "ask_api" /\ pc = "raised"
    /\ manual_query' = PyNone
    /\ script' = "idle"
    /\ CallOver
    /\ UNCHANGED <<voiceVars, appVars, chat, text_to_speak, last_processed_speech_id,
                   speech_data, events, processed>>

\* lines 269-276
ManualBranch(key) ==
    /\ script = "manual"
    /\ Truthy(manual_query)
    /\ chat' = Append(chat, ChatMessage("user", ContentResult(manual_query)))
    /\ CallAskApi(key, manual_query)
    /\ script' = "manual_call"
    /\ UNCHANGED <<voiceVars, appVars, text_to_speak, last_processed_speech_id,
                   speech_data, manual_query, events, processed>>

\* line 269 with nothing typed: the run ends
ManualSkipped ==
    /\ script = "manual"
    /\ ~Truthy(manual_query)
    /\ manual_query' = PyNone
    /\ script' = "idle"
    /\ UNCHANGED <<voiceVars, callVars, appVars, chat, text_to_speak,
                   last_processed_speech_id, speech_data, events, processed>>

\* lines 279-286
ManualReturns ==
    /\ script = "manual_call"
    /\ fn = "ask_api" /\ pc = "returned"
    /\ chat' = Append(chat, ChatMessage("assistant", result))
    /\ text_to_speak' = result
    /\ manual_query' = PyNone
    /\ script' = "speech"
    /\ CallOver
    /\ UNCHANGED <<voiceVars, appVars, last_processed_speech_id, speech_data, events, processed>>

\* line 276 raises
ManualRaises ==
    /\ script = "manual_call"
    /\ fn = "ask_api" /\ pc = "raised"
    /\ manual_query' = PyNone
    /\ script' = "idle"
    /\ CallOver
    /\ UNCHANGED <<voiceVars, appVars, chat, text_to_speak, last_processed_speech_id,
                   speech_data, events, processed>>

SpeechNext ==
    \/ \E text \in Transcripts : SpeechInput(text)
    \/ SpeechError
    \/ \E q \in TypedQueries : ChatInput(q)
    \/ \E key \in SpeechKeys : SpeechBranch(key)
    \/ SpeechSkipped
    \/ \E kept \in BOOLEAN : SpeechReturns(kept)
    \/ SpeechRaises
    \/ \E key \in SpeechKeys : ManualBranch(key)
    \/ ManualSkipped
    \/ ManualReturns
    \/ ManualRaises
    \/ AskApiMissingKey
    \/ \E r \in SpeechResponses : AskApiSuccess(r)
    \/ \E r \in SpeechResponses : AskApiHttpError(r)
    \/ \E r \in SpeechResponses : AskApiRaises(r)

SpecSpeech == Init /\ [][SpeechNext]_vars

----------------------------------------------------------------------------
(* The browser component of main2.py: its two buttons, the render events   *)
(* Streamlit sends it, and the callbacks of recognition and of the         *)
(* utterances, one handler at a time as the page's event loop runs them.   *)

\* what a step of the component leaves alone
outsideBrowser == <<callVars, appVars, speechVars>>

SpokenTexts == {"Hi there!", "Sorry, I received an unexpected response from the AI."}

RenderTexts == SpokenTexts \cup {""}

\* lines 105-109, the body of utterance.onend
OnEnd ==
    /\ speaking' = FALSE
    /\ speakDisabled' = FALSE
    /\ listenDisabled' = FALSE
    /\ currentSpeechText' = ""

\* lines 112-116, the body of utterance.onerror
OnError ==
    /\ speaking' = FALSE
    /\ speakDisabled' = FALSE
    /\ listenDisabled' = FALSE
    /\ currentSpeechText' = currentSpeechText

\* lines 94-128, with currentSpeechText = text when it is called
speakCurrentText(text, auto) ==
    IF text # "" /\ ~speaking
        THEN /\ Len(utterances) + cancelled < MaxQueue
             /\ utterances' = Append(utterances, Utterance(text, auto))
             /\ currentSpeechText' = text
             /\ finished' = NoUtterance
             /\ UNCHANGED <<speaking, speakDisabled, listenDisabled, cancelled>>
    ELSE IF speaking
        THEN /\ utterances' = <<>>
             /\ cancelled' = cancelled + Len(utterances)
             /\ speaking' = FALSE
             /\ speakDisabled' = FALSE
             /\ listenDisabled' = FALSE
             /\ currentSpeechText' = ""
             /\ finished' = finished
    ELSE /\ currentSpeechText' = text
         /\ UNCHANGED <<utterances, cancelled, speaking, speakDisabled,
                        listenDisabled, finished>>

\* lines 81-85; start() on a recognition that has not ended throws
\* InvalidStateError and changes nothing
ListenClick ==
    /\ ~listenDisabled
    /\ event' = "ListenClick"
    /\ recognition' = IF ~speaking /\ recognition = "idle"
                        THEN "starting" ELSE recognition
    /\ UNCHANGED <<outsideBrowser, speaking, currentSpeechText, listenDisabled,
                   speakDisabled, utterances, cancelled, rendered, finished>>

\* lines 58-61
RecognitionStart ==
    /\ recognition = "starting"
    /\ event' = "RecognitionStart"
    /\ recognition' = "listening"
    /\ listenDisabled' = TRUE
    /\ UNCHANGED <<outsideBrowser, speaking, currentSpeechText, speakDisabled,
                   utterances, cancelled, rendered, finished>>

\* lines 63-68; continuous = false, so the end follows
RecognitionResult ==
    /\ recognition = "listening"
    /\ event' = "RecognitionResult"
    /\ recognition' = "ending"
    /\ UNCHANGED <<outsideBrowser, speaking, currentSpeechText, listenDisabled,
                   speakDisabled, utterances, cancelled, rendered, finished>>

\* lines 70-74
RecognitionError ==
    /\ recognition \in {"starting", "listening"}
    /\ event' = "RecognitionError"
    /\ recognition' = "ending"
    /\ UNCHANGED <<outsideBrowser, speaking, currentSpeechText, listenDisabled,
                   speakDisabled, utterances, cancelled, rendered, finished>>

\* lines 76-79
RecognitionEnd ==
    /\ recognition \in {"listening", "ending"}
    /\ event' = "RecognitionEnd"
    /\ recognition' = "idle"
    /\ listenDisabled' = FALSE
    /\ UNCHANGED <<outsideBrowser, speaking, currentSpeechText, speakDisabled,
                   utterances, cancelled, rendered, finished>>

\* line 130
SpeakClick ==
    /\ ~speakDisabled
    /\ event' = "SpeakClick"
    /\ speakCurrentText(currentSpeechText, FALSE)
    /\ UNCHANGED <<outsideBrowser, recognition, rendered>>

\* lines 133-145
Render(text) ==
    /\ event' = "Render"
    /\ rendered' = text
    /\ IF text # "" /\ text # currentSpeechText
         THEN speakCurrentText(text, TRUE)
         ELSE UNCHANGED <<speaking, currentSpeechText, listenDisabled,
                          speakDisabled, utterances, cancelled, finished>>
    /\ UNCHANGED <<outsideBrowser, recognition>>

\* lines 98-103: the queue's first utterance begins to be spoken
UtteranceStart ==
    /\ utterances # <<>>
    /\ ~utterances[1].started
    /\ event' = "UtteranceStart"
    /\ utterances' = [utterances EXCEPT ![1].started = TRUE]
    /\ speaking' = TRUE
    /\ speakDisabled' = TRUE
    /\ listenDisabled' = TRUE
    /\ UNCHANGED <<outsideBrowser, recognition, currentSpeechText, cancelled,
                   rendered, finished>>

\* lines 104-110: it has been spoken to its end
UtteranceEnd ==
    /\ utterances # <<>>
    /\ utterances[1].started
    /\ event' = "UtteranceEnd"
    /\ finished' = [utterances[1] EXCEPT !.started = FALSE]
    /\ utterances' = Tail(utterances)
    /\ OnEnd
    /\ UNCHANGED <<outsideBrowser, recognition, cancelled, rendered>>

\* lines 111-117: it fails, before or while it is spoken
UtteranceError ==
    /\ utterances # <<>>
    /\ event' = "UtteranceError"
    /\ finished' = NoUtterance
    /\ utterances' = Tail(utterances)
    /\ OnError
    /\ UNCHANGED <<outsideBrowser, recognition, cancelled, rendered>>

\* line 121: an utterance cancel() removed gets its event, an error event by
\* the Web Speech API, an end event in browsers that predate that
CancelledEvent(kind) ==
    /\ cancelled > 0
    /\ event' = "CancelledEvent"
    /\ cancelled' = cancelled - 1
    /\ IF kind = "end" THEN OnEnd ELSE OnError
    /\ UNCHANGED <<outsideBrowser, recognition, utterances, rendered, finished>>

VoiceNext ==
    \/ ListenClick
    \/ RecognitionStart
    \/ RecognitionResult
    \/ RecognitionError
    \/ RecognitionEnd
    \/ SpeakClick
    \/ \E text \in RenderTexts : Render(text)
    \/ UtteranceStart
    \/ UtteranceEnd
    \/ UtteranceError
    \/ \E kind \in {"end", "error"} : CancelledEvent(kind)

SpecVoice == Init /\ [][VoiceNext]_vars

----------------------------------------------------------------------------
(* Properties *)

IsPost(e) == e.ev = "post"
IsSleep(e) == e.ev = "sleep"
IsNote(e) == e.ev \in {"info", "error"}

Posts == SelectSeq(trace, IsPost)
Sleeps == SelectSeq(trace, IsSleep)
Notes == SelectSeq(trace, IsNote)

\* the position in trace of the n-th event of one kind
Position(kind, n) ==
    CHOOSE i \in DOMAIN trace :
        /\ trace[i].ev = kind
        /\ Cardinality({j \in 1..i : trace[j].ev = kind}) = n

Is5xx(a) == a.kind = "response" /\ a.status \in 500..599
IsNetworkFailure(a) == a.kind \in {"Timeout", "ConnectionError"}
IsGood200(a) == a.kind = "response" /\ a.status = 200 /\ WellFormed(a.body)

\* the doubling delays, written out
Doubling == <<1, 2, 4, 8, 16>>

\* C1: with an absent or empty API key a call of either function makes no
\* request and no wait, receives no answer, raises nothing, and what it
\* returns is the function's missing-credential result.
C1_MissingKeyNoRequest ==
    (fn # "" /\ (api_key = PyNone \/ api_key = PyStr(""))) =>
        /\ Len(Posts) = 0
        /\ Len(Sleeps) = 0
        /\ Len(answers) = 0
        /\ pc \in {"entry", "returned"}
        /\ pc = "returned" =>
             result = IF fn = "ask_openrouter" THEN MissingKeyResult
                      ELSE AskApiMissingKeyResult

C1_Witness ==
    /\ fn = "ask_openrouter" /\ pc = "returned"
    /\ api_key = PyStr("")
    /\ Len(messages) = 2
    /\ result = MissingKeyResult
    /\ trace = <<>>

\* C2: when the first k answers of an ask_openrouter call are HTTP 5xx and
\* answer k+1 is a well-formed 200 (0 <= k <= 4), the call has returned the
\* first choice's content after exactly k+1 requests and k waits of 1, 2, 4, 8,
\* the i-th wait lying between request i and request i+1.
C2_RetryThenSuccess ==
    (/\ fn = "ask_openrouter"
     /\ Len(answers) > 0
     /\ IsGood200(answers[Len(answers)])
     /\ \A i \in 1..(Len(answers) - 1) : Is5xx(answers[i])) =>
        LET k == Len(answers) - 1 IN
        /\ k <= 4
        /\ pc = "returned"
        /\ Len(Posts) = k + 1
        /\ Len(Sleeps) = k
        /\ \A i \in 1..k :
             /\ Sleeps[i].delay = Doubling[i]
             /\ Position("post", i) < Position("sleep", i)
             /\ Position("sleep", i) < Position("post", i + 1)
        /\ result.t = "str"
        /\ result.fmt = "{content}"
        /\ result.arg = answers[k + 1].body.choices[1].content.s

C2_Witness ==
    /\ fn = "ask_openrouter" /\ pc = "returned"
    /\ Len(answers) = 5
    /\ \A i \in 1..4 : Is5xx(answers[i])
    /\ IsGood200(answers[5])
    /\ Len(answers[5].body.choices) = 2
    /\ result.arg = "Namaste"

\* C3: when every answer of an ask_openrouter call is HTTP 5xx the call never
\* makes more than max_retries + 1 requests, and once it has returned it has
\* made exactly max_retries + 1 and returned the retries-exhausted result.
C3_ExhaustedAfterFive ==
    (/\ fn = "ask_openrouter"
     /\ Len(answers) > 0
     /\ \A i \in 1..Len(answers) : Is5xx(answers[i])) =>
        /\ Len(Posts) = Len(answers)
        /\ Len(Posts) <= 5
        /\ pc \in {"loop", "returned"}
        /\ pc = "returned" => (Len(Posts) = 5 /\ result = ExhaustedResult)

C3_Witness ==
    /\ fn = "ask_openrouter" /\ pc = "returned"
    /\ result = ExhaustedResult
    /\ Len(answers) = 5
    /\ \A i \in 1..5 : Is5xx(answers[i])
    /\ answers[1].status = 500 /\ answers[5].status = 503

\* C4: an answer whose status is neither 200 nor 5xx ends the ask_openrouter
\* call at once: the call has returned the API-error result with that status
\* and the first min(500, length) characters of the body, the request that
\* got the answer is the last event of the call, and when it is the first
\* answer the call made exactly one request.
C4_OtherStatusEndsCall ==
    (/\ fn = "ask_openrouter"
     /\ Len(answers) > 0
     /\ answers[Len(answers)].kind = "response"
     /\ answers[Len(answers)].status # 200
     /\ answers[Len(answers)].status \notin 500..599) =>
        LET a == answers[Len(answers)] IN
        /\ pc = "returned"
        /\ result.t = "str"
        /\ result.fmt = "API Error ({status}): {text}"
        /\ result.status = a.status
        /\ Len(result.tail) = IF Len(a.text) <= 500 THEN Len(a.text) ELSE 500
        /\ \A i \in 1..Len(result.tail) : result.tail[i] = a.text[i]
        /\ trace[Len(trace)].ev = "post"
        /\ Len(Posts) = Len(answers)
        /\ Len(answers) = 1 => (Len(trace) = 1 /\ Len(Posts) = 1)

C4_Witness ==
    /\ fn = "ask_openrouter" /\ pc = "returned"
    /\ Len(answers) = 3
    /\ answers[3].status = 429
    /\ Len(answers[3].text) > 500
    /\ Len(result.tail) = 500

\* C5: every request of an ask_openrouter call carries one JSON object per
\* message of the conversation passed in, in the same order, each holding the
\* message's role and content and no other key; all requests of the call carry
\* the same data.
C5_PayloadRoundTrip ==
    fn = "ask_openrouter" =>
        \A n \in 1..Len(Posts) :
            /\ Len(Posts[n].data.messages) = Len(messages)
            /\ \A i \in 1..Len(messages) :
                 Posts[n].data.messages[i] =
                     << <<"role", <<"string", messages[i].role.s>> >>,
                        <<"content", <<"string", messages[i].content.s>> >> >>
            /\ Posts[n].data = Posts[1].data

C5_Witness ==
    /\ fn = "ask_openrouter"
    /\ Len(Posts) = 3
    /\ Len(messages) = 2
    /\ messages[1].role = PyStr("system")
    /\ "name" \in DOMAIN messages[2]

\* C6 (as claimed): an ask_openrouter call never lets an exception leave it,
\* and what it returns is a str.
C6_AlwaysReturnsString ==
    fn = "ask_openrouter" =>
        /\ pc # "raised"
        /\ pc = "returned" => result.t = "str"

IsFailureResult(v) ==
    v.fmt \in {ApiErrorResult(0, <<>>).fmt, UnexpectedResult("").fmt, ExhaustedResult.fmt}

\* every wait comes right after a notification that states its delay
WaitsAnnounced ==
    \A i \in DOMAIN trace :
        trace[i].ev = "sleep" =>
            /\ i > 1
            /\ trace[i - 1].ev = "info"
            /\ trace[i - 1].text = Digits(trace[i].delay)

\* C7 (as claimed): every wait of an ask_openrouter call is announced, and a
\* call that returned an API error, an unexpected error or retries exhausted
\* has emitted a notification.
C7_FailuresNotified ==
    fn = "ask_openrouter" =>
        /\ WaitsAnnounced
        /\ (pc = "returned" /\ IsFailureResult(result)) => Len(Notes) > 0

\* C7 (amended): every wait of an ask_openrouter call comes right after an
\* st.info notification that states its delay, and these are the only
\* notifications: a terminal failure adds none, so a call has emitted as many
\* notifications as it has made waits.
C7_OnlyRetriesNotified ==
    fn = "ask_openrouter" =>
        /\ WaitsAnnounced
        /\ Len(Notes) = Len(Sleeps)
        /\ Len(Notes) = retry

C7_Witness ==
    /\ fn = "ask_openrouter" /\ pc = "returned"
    /\ result.fmt = ApiErrorResult(0, <<>>).fmt
    /\ Len(answers) = 3
    /\ Is5xx(answers[1]) /\ IsNetworkFailure(answers[2])
    /\ Len(Notes) = 2

\* C8 (as claimed): a call that returned retries exhausted has made one wait
\* fewer than requests, and its trace does not end with a wait.
C8_NoWaitBeforeGivingUp ==
    (fn = "ask_openrouter" /\ pc = "returned" /\ result = ExhaustedResult) =>
        /\ Len(Sleeps) = Len(Posts) - 1
        /\ trace[Len(trace)].ev # "sleep"

HasBrokenBody(a) ==
    /\ a.kind = "response" /\ a.status = 200
    /\ \/ ~a.body.decodable
       \/ ~a.body.hasChoices
       \/ Len(a.body.choices) = 0
       \/ ~a.body.choices[1].hasMessage
       \/ ~a.body.choices[1].hasContent

\* what the call does on a broken 200 body, whatever the result is called:
\* it returns at once, the request being its last event
BrokenBodyEndsCall ==
    /\ pc = "returned"
    /\ result.t = "str"
    /\ trace[Len(trace)].ev = "post"
    /\ Len(Posts) = Len(answers)
    /\ Len(Sleeps) = Len(answers) - 1

\* C9 (as claimed): a 200 answer with a broken body ends the call at once with
\* a result of another form than the unexpected-error result.
C9_DecodeErrorDistinct ==
    (/\ fn = "ask_openrouter"
     /\ Len(answers) > 0
     /\ HasBrokenBody(answers[Len(answers)])) =>
        /\ BrokenBodyEndsCall
        /\ result.fmt # "Unexpected error: {e}"

\* C9 (amended): a 200 answer whose body does not decode or has no
\* choices[0].message.content ends the ask_openrouter call at once, with no
\* wait and no further request, and the result is the unexpected-error
\* result carrying the text of the exception: no separate decode-error result
\* exists.
C9_BrokenBodyIsUnexpected ==
    (/\ fn = "ask_openrouter"
     /\ Len(answers) > 0
     /\ HasBrokenBody(answers[Len(answers)])) =>
        /\ BrokenBodyEndsCall
        /\ result.fmt = "Unexpected error: {e}"
        /\ result.arg \in {"Expecting value: line 1 column 1 (char 0)", "'choices'",
                           "list index out of range", "'message'", "'content'"}
        /\ ~answers[Len(answers)].body.decodable =>
             result.arg = "Expecting value: line 1 column 1 (char 0)"

C9_Witness ==
    /\ fn = "ask_openrouter" /\ pc = "returned"
    /\ Len(answers) = 2
    /\ Is5xx(answers[1])
    /\ answers[2].status = 200 /\ ~answers[2].body.decodable
    /\ result.fmt = "Unexpected error: {e}"

\* C10: in an ask_openrouter call timeouts and connection errors are retried
\* like HTTP 5xx on one counter: every such answer is followed by a wait, the
\* i-th wait of the call lasts 2^(i-1) whatever caused it, and the call never
\* makes more than max_retries + 1 requests.
C10_SharedCounter ==
    fn = "ask_openrouter" =>
        /\ Len(Posts) <= 5
        /\ Len(Sleeps) =
             Cardinality({i \in DOMAIN answers : Is5xx(answers[i]) \/ IsNetworkFailure(answers[i])})
        /\ \A i \in 1..Len(Sleeps) : Sleeps[i].delay = Doubling[i]
        /\ \A i \in DOMAIN answers :
             IsNetworkFailure(answers[i]) =>
                 /\ Len(Sleeps) >= i
                 /\ Position("post", i) < Position("sleep", i)
                 /\ i < Len(answers) => Position("sleep", i) < Position("post", i + 1)

C10_Witness ==
    /\ fn = "ask_openrouter"
    /\ Len(answers) = 5
    /\ answers[1].kind = "Timeout"
    /\ Is5xx(answers[2])
    /\ answers[3].kind = "ConnectionError"
    /\ Is5xx(answers[4])
    /\ answers[5].kind = "Timeout"
    /\ Len(Sleeps) = 5

\* the terminal states of the call's state machine, read off the result
IsSuccess(v) == v.fmt = "{content}"
IsPermanentFailure(v) == v.fmt \in {"API Error ({status}): {text}", "Unexpected error: {e}"}
IsExhausted(v) == v.fmt = "Error: Max retries exceeded. Please try again in a moment."

TerminalStates(v) ==
    {c \in {"Success", "PermanentFailure", "RetriesExhausted"} :
        \/ c = "Success" /\ IsSuccess(v)
        \/ c = "PermanentFailure" /\ IsPermanentFailure(v)
        \/ c = "RetriesExhausted" /\ IsExhausted(v)}

\* C11: an ask_openrouter call that has entered its retry loop, every attempt
\* and wait of which ends, eventually returns in exactly one of the terminal
\* states Success, PermanentFailure, RetriesExhausted, whatever the network
\* answers; once it has returned, no request, notification or wait follows
\* and the result stays.
C11_CallTerminates ==
    /\ (fn = "ask_openrouter" /\ pc = "loop") ~>
           (pc = "returned" /\ Cardinality(TerminalStates(result)) = 1)
    /\ [][pc = "returned" =>
            (pc' = "returned" /\ trace' = trace /\ answers' = answers /\ result' = result)]_vars

C11_Witness ==
    /\ fn = "ask_openrouter" /\ pc = "returned"
    /\ TerminalStates(result) = {"Success"}
    /\ Len(answers) = 4
    /\ answers[1].kind = "ConnectionError"
    /\ Is5xx(answers[2])
    /\ answers[3].kind = "Timeout"
    /\ Len(Sleeps) = 3

\* C12 (as claimed): every request of the main.py application carries at
\* most 30 messages.
C12_RequestsAtMost30 ==
    \A i \in 1..Len(Posts) : Len(Posts[i].data.messages) <= 30

\* a step in which a Send whose call ended in an error finishes
ErrorSendReturns ==
    /\ fn = "ask_openrouter" /\ pc = "returned" /\ pc' = "idle"
    /\ result.fmt # "{content}"

\* the error string as the assistant message holds it
ErrorMessage ==
    [role |-> PyStr("assistant"),
     content |-> [t |-> "str",
                  s |-> <<result.fmt, result.arg, ToString(result.status),
                          ToString(result.tail)>>]]

\* a step in which Send is pressed on an empty or white prompt
BlankSendStep ==
    /\ button' = "Send"
    /\ pc = "idle"
    /\ \A i \in 1..Len(user_prompt') : user_prompt'[i] = " "

BlankSendChangesNothing ==
    BlankSendStep =>
        /\ session' = session
        /\ before' = before
        /\ trace' = trace
        /\ answers' = answers
        /\ pc' = "idle"

\* C13 (as claimed): after a Send whose call ended in an error the
\* conversation is the one the call was made with, followed by one assistant
\* message holding the error string; a blank Send changes nothing.
C13_FailureOnlyAppends ==
    [][/\ ErrorSendReturns => session' = Append(messages, ErrorMessage)
       /\ BlankSendChangesNothing]_vars

\* C13 (amended): a Send whose call ended in an error appends exactly one
\* assistant message holding the error string to the conversation the call
\* was made with; the rerun's truncation may then drop the oldest non-system
\* messages, and those that remain keep their content and order, the system
\* message first and the error message last.  A blank Send changes nothing
\* and makes no request.
C13_FailureAppendsThenTruncates ==
    [][/\ ErrorSendReturns =>
            /\ before' = Append(messages, ErrorMessage)
            /\ Len(session') = IF Len(before') <= 30 THEN Len(before') ELSE 30
            /\ session'[1] = messages[1]
            /\ session'[Len(session')] = ErrorMessage
            /\ \A i \in 2..Len(session') :
                 session'[i] = before'[Len(before') - Len(session') + i]
       /\ BlankSendChangesNothing]_vars

C13_Witness ==
    /\ pc = "idle"
    /\ Len(before) = 32
    /\ Len(session) = 30
    /\ failures = 1
    /\ session[30].content.s[1] = "API Error ({status}): {text}"

\* C16: when the script is rerun with more than 30 messages, the
\* conversation becomes the first (system) message followed by the latest 29
\* in their order: 30 messages, the system message once, and every message
\* dropped is a non-system one older than those kept.  With 30 or fewer the
\* conversation is left as it is.
C16_TruncationKeepsSystemAndLatest ==
    pc = "idle" =>
        IF Len(before) > 30
            THEN /\ Len(session) = 30
                 /\ session[1] = before[1]
                 /\ session[1].role.s = "system"
                 /\ \A i \in 2..30 : session[i] = before[Len(before) - 30 + i]
                 /\ Cardinality({i \in 1..30 : session[i].role.s = "system"}) = 1
                 /\ \A j \in 2..(Len(before) - 29) : before[j].role.s # "system"
            ELSE session = before

C16_Witness ==
    /\ pc = "idle"
    /\ Len(before) = 31
    /\ Len(session) = 30
    /\ session[2] = before[3]
    /\ session[2].role.s = "assistant"

\* C14: in any sequence of ask_openrouter calls, whatever the earlier calls
\* left behind, a call enters its loop with attempt counter 0, counts one per
\* answer it has received, waits 1, 2, 4, ... from its first wait on, sends
\* the conversation it was given, and makes at most 5 requests.
C14_CallsIndependent ==
    fn = "ask_openrouter" =>
        /\ pc = "loop" => retry = Len(answers)
        /\ Len(Posts) = Len(answers)
        /\ Len(Posts) <= 5
        /\ \A i \in 1..Len(Sleeps) : Sleeps[i].delay = Doubling[i]
        /\ \A n \in 1..Len(Posts) :
             /\ Len(Posts[n].data.messages) = Len(messages)
             /\ \A i \in 1..Len(messages) :
                  Posts[n].data.messages[i][2][2][2] = messages[i].content.s

\* a call made after one that ended in retries exhausted, after its first wait
C14_Witness ==
    /\ fn = "ask_openrouter" /\ pc = "loop"
    /\ result = ExhaustedResult
    /\ Len(messages) = 2
    /\ Len(answers) = 1
    /\ retry = 1
    /\ Len(Sleeps) = 1 /\ Sleeps[1].delay = 1

\* C20: a call of ask_api makes at most one request and, whatever the request
\* did, ends by returning a string: it never ends in an exception and never
\* returns anything else.
C20_AskApiReturnsString ==
    fn = "ask_api" =>
        /\ Len(Posts) <= 1
        /\ pc # "raised"
        /\ pc = "returned" => result.t = "str"

\* C17: a speech input is processed at most once per id, and once a script
\* run is over a speech input with an id and a text is the one recorded in
\* last_processed_speech_id.
C17_SpeechProcessedOnce ==
    /\ \A id \in 1..MaxEvents :
         Cardinality({k \in DOMAIN processed : processed[k] = id}) <= 1
    /\ (script = "idle" /\ speech_data.type = "speech_input"
          /\ Truthy(speech_data.text))
         => last_processed_speech_id = speech_data.id

\* the automatic utterance of the response last rendered has been spoken to
\* its end and nothing else is queued or due
AutoFinished ==
    /\ rendered # ""
    /\ finished = Utterance(rendered, TRUE)
    /\ utterances = <<>>
    /\ cancelled = 0
    /\ ~speaking
    /\ ~speakDisabled

\* C15: once the automatic utterance of a response has finished, a click on
\* Speak Response queues an utterance of that response.
C15_SpeakResponseRepeats ==
    [][(event' = "SpeakClick" /\ AutoFinished)
         => (utterances' # <<>> /\ utterances'[1].text = rendered)]_vars

\* C18: a render event with the text of the render event before it starts no
\* utterance.
C18_SpeaksOnlyNewText ==
    [][(event' = "Render" /\ rendered' = rendered)
         => Len(utterances') <= Len(utterances)]_vars

RecognitionActive == recognition \in {"starting", "listening"}

SynthesisActive == utterances # <<>>

\* C19: recognition (started or listening) and synthesis (an utterance
\* pending or being spoken) are never active at the same time.
C19_NeverBothActive == ~(RecognitionActive /\ SynthesisActive)

\* a conversation that starts with the seeded system prompt and has no other
\* message of role system
SystemOnlyFirst(msgs) ==
    /\ msgs # <<>>
    /\ msgs[1] = SystemMessage
    /\ \A i \in 2..Len(msgs) : msgs[i].role.s # "system"

\* C21: in every state of the main.py session, before and after the rerun's
\* truncation, the conversation is non-empty, starts with the seeded system
\* prompt and has no other system message; and Clear leaves the system
\* prompt alone in it.
C21_SystemPromptFirst ==
    /\ [](SystemOnlyFirst(session) /\ SystemOnlyFirst(before))
    /\ [][Clear => session' = <<SystemMessage>>]_vars

\* a conversation that has been truncated, holding all three roles, at the
\* form where Send and Clear can act on it
C21_Witness ==
    /\ AtForm
    /\ Len(before) > MaxHistory
    /\ Len(session) = MaxHistory
    /\ session[1] = SystemMessage
    /\ {session[i].role.s : i \in 2..Len(session)} = {"user", "assistant"}

\* no two adjacent messages have the same role
RolesAlternate(msgs) ==
    \A i \in 1..(Len(msgs) - 1) : msgs[i].role # msgs[i + 1].role

\* the last message of a request's body is the user message made of the
\* prompt just submitted
EndsWithPrompt(data) ==
    /\ data.messages # <<>>
    /\ data.messages[Len(data.messages)] = JsonObject(UserMessage(user_prompt))

\* C22: in every state of the main.py session, before and after the rerun's
\* truncation, no two adjacent messages of the conversation have the same
\* role, and every request carries a conversation that ends with the user
\* message just submitted.
C22_RolesAlternate ==
    /\ RolesAlternate(session)
    /\ RolesAlternate(before)
    /\ \A n \in 1..Len(Posts) :
         /\ button = "Send" /\ Sendable_Prompt(user_prompt)
         /\ EndsWithPrompt(Posts[n].data)

\* the request of a Send made on a truncated conversation
C22_Witness ==
    /\ fn = "ask_openrouter" /\ pc = "returned"
    /\ Len(Posts) = 1
    /\ Len(before) > MaxHistory
    /\ Len(session) = MaxHistory + 1
    /\ session[2].role.s = "assistant"
    /\ session[Len(session)] = UserMessage(user_prompt)

====
